---- MODULE Spec2Model ----
(***************************************************************************)
(* Lexicon-based emotion analysis of interview transcripts:                *)
(*   03_NRC_analýza.py  - per-group emotion statistics                     *)
(*   04_NRC_ngramy.py   - emotion-conditioned n-gram counts and the        *)
(*                        emotion x n-gram matrix                          *)
(* Strings are sequences of Unicode code points, so that lower(), strip(), *)
(* isalpha(), isdigit(), the regular expression, ' '.join and sorted() are *)
(* computed on characters.  A dict / Counter / defaultdict is a function   *)
(* whose DOMAIN is its key set.  The UDPipe lemmatizer is external: a line *)
(* of text is given as the sequence of CoNLL-U records (lemma, upos) the   *)
(* lemmatizer returns for it, punctuation records included.                *)
(***************************************************************************)
EXTENDS Integers, Sequences, FiniteSets, TLC

\* ------------------------------------------------------------------------
\* Bounds of the model
\* ------------------------------------------------------------------------

\* total number of lines in all analysed folders
MaxLines == 2

\* largest number of repetitions of one clause in the corpus of SpecMatrix
MaxRep == 7

\* ------------------------------------------------------------------------
\* Python string built-ins, on sequences of code points
\* ------------------------------------------------------------------------

\* str.isalpha() on one character (Basic Latin, Latin-1, Latin Extended-A)
IsAlphaChar(c) ==
    \/ c \in 65..90
    \/ c \in 97..122
    \/ c \in {170, 181, 186}
    \/ c \in 192..214
    \/ c \in 216..246
    \/ c \in 248..382

\* str.isdigit() on one character (ASCII digits and the superscripts)
IsDigitChar(c) == c \in (48..57) \cup {178, 179, 185}

\* whitespace removed by str.strip()
IsSpaceChar(c) == c \in {9, 10, 11, 12, 13, 28, 29, 30, 31, 32, 133, 160}

\* str.lower() on one character
LowerChar(c) ==
    IF c \in 65..90 THEN c + 32
    ELSE IF c \in 192..222 /\ c # 215 THEN c + 32
    ELSE IF c \in 256..311 /\ c % 2 = 0 /\ c # 304 THEN c + 1
    ELSE IF c \in 313..328 /\ c % 2 = 1 THEN c + 1
    ELSE IF c \in 330..375 /\ c % 2 = 0 THEN c + 1
    ELSE IF c = 376 THEN 255
    ELSE IF c \in 377..382 /\ c % 2 = 1 THEN c + 1
    ELSE c

Lower(s) == [i \in 1..Len(s) |-> LowerChar(s[i])]

IsAlpha(s) == Len(s) > 0 /\ \A i \in 1..Len(s) : IsAlphaChar(s[i])

IsDigit(s) == Len(s) > 0 /\ \A i \in 1..Len(s) : IsDigitChar(s[i])

Strip(s) ==
    LET keep == {i \in 1..Len(s) : ~IsSpaceChar(s[i])}
        lo == CHOOSE i \in keep : \A j \in keep : i <= j
        hi == CHOOSE i \in keep : \A j \in keep : j <= i
    IN  IF keep = {} THEN <<>> ELSE SubSeq(s, lo, hi)

\* re.match(r'^[a-zá-žÁ-Ž]+$', s): a-z is 97..122, á-ž is 225..382,
\* Á-Ž is 193..381
ReMatchSlovo(s) ==
    /\ Len(s) > 0
    /\ \A i \in 1..Len(s) :
          s[i] \in (97..122) \cup (225..382) \cup (193..381)

\* ' '.join(tokens)
RECURSIVE Join(_)
Join(tokens) ==
    IF Len(tokens) = 0 THEN <<>>
    ELSE IF Len(tokens) = 1 THEN tokens[1]
    ELSE tokens[1] \o <<32>> \o Join(Tail(tokens))

\* a < b in Python's ordering of str (code point by code point)
RECURSIVE StrLess(_, _)
StrLess(a, b) ==
    IF Len(b) = 0 THEN FALSE
    ELSE IF Len(a) = 0 THEN TRUE
    ELSE IF a[1] # b[1] THEN a[1] < b[1]
    ELSE StrLess(Tail(a), Tail(b))

\* sorted(S) for a set of strings
RECURSIVE Sorted(_)
Sorted(S) ==
    IF S = {} THEN <<>>
    ELSE LET m == CHOOSE x \in S : \A y \in S \ {x} : StrLess(x, y)
         IN  <<m>> \o Sorted(S \ {m})

\* ------------------------------------------------------------------------
\* dict, Counter, defaultdict
\* ------------------------------------------------------------------------

EmptyDict == [k \in {} |-> 0]

\* d.get(k, default)
DictGet(d, k, default) == IF k \in DOMAIN d THEN d[k] ELSE default

\* the function f itself; @@ makes TLC evaluate it once, at this point
Eager(f) == f @@ EmptyDict

\* d[k] = v
DictSet(d, k, v) == (k :> v) @@ d

\* Counter: c[k] += n
CounterAdd(c, k, n) == DictSet(c, k, DictGet(c, k, 0) + n)

\* Counter.update(iterable of keys)
RECURSIVE CounterUpdateSeq(_, _)
CounterUpdateSeq(c, keys) ==
    IF Len(keys) = 0 THEN c
    ELSE CounterUpdateSeq(CounterAdd(c, keys[1], 1), Tail(keys))

\* Counter.update(other Counter): counts are added
CounterUpdate(c, other) ==
    Eager([k \in DOMAIN c \cup DOMAIN other |->
              DictGet(c, k, 0) + DictGet(other, k, 0)])

\* ------------------------------------------------------------------------
\* Words used in the lexicon resources, the configurations and the corpus
\* ------------------------------------------------------------------------

w_radost == <<114, 97, 100, 111, 115, 116>>
w_Radost == <<82, 97, 100, 111, 115, 116>>
w_dobry  == <<100, 111, 98, 114, 253>>
w_strach == <<115, 116, 114, 97, 99, 104>>
w_je     == <<106, 101>>
w_dva    == <<100, 118, 97>>
w_5      == <<53>>
w_3d     == <<51, 100>>
w_carka  == <<44>>

\* ------------------------------------------------------------------------
\* The NRC lexicon resource (tab-separated file with a header line)
\* ------------------------------------------------------------------------

\* the emotion columns read by 03
emoce ==
    {"anger", "anticipation", "disgust", "fear", "joy",
     "negative", "positive", "sadness", "surprise", "trust"}

\* str.lower() of a column header
LowerHeader(h) == IF h = "Intensity" THEN "intensity" ELSE h

\* one row of the file: the text of the 'Czech Word' cell and the set of
\* columns whose cell text is 1 (every other emotion cell is 0)
Row(word, ones) == [word |-> word, ones |-> ones]

\* cell text of column h in a row
Cell(row, h) == IF h \in row.ones THEN "1" ELSE "0"

\* pandas.read_csv turns the cell text of a numeric column into an integer
PandasValue(text) == IF text = "1" THEN 1 ELSE 0

StdHeader ==
    <<"English Word", "anger", "anticipation", "disgust", "fear", "joy",
      "negative", "positive", "sadness", "surprise", "trust", "Czech Word">>

\* the file with exactly the ten emotion columns
LexFileStd ==
    [fieldnames |-> StdHeader,
     rows |-> << Row(<<32>> \o w_Radost \o <<32>>, {"joy", "positive"}),
                 Row(w_dobry, {"fear", "trust"}),
                 Row(w_strach, {"fear", "negative"}),
                 Row(w_3d, {"joy"}),
                 Row(w_je, {}) >>]

\* a file with one more column and a row whose word is blank
LexFileExtra ==
    [fieldnames |-> StdHeader \o <<"Intensity">>,
     rows |-> << Row(w_radost, {"joy", "positive"}),
                 Row(w_dobry, {"fear", "trust"}),
                 Row(w_strach, {"fear", "negative", "Intensity"}),
                 Row(<<32, 32>>, {"sadness"}),
                 Row(w_dva, {"Intensity"}) >>]

\* nacti_nrc(cesta): only the ten columns of emoce are read, a cell counts
\* when it is the integer 1
RECURSIVE nacti_nrc_rows(_, _)
nacti_nrc_rows(rows, slovnik) ==
    IF Len(rows) = 0 THEN slovnik
    ELSE LET row == rows[1]
             w == Lower(Strip(row.word))
             ones == {emo \in emoce : PandasValue(Cell(row, emo)) = 1}
         IN  nacti_nrc_rows(Tail(rows),
                 IF ones = {} THEN slovnik
                 ELSE DictSet(slovnik, w, DictGet(slovnik, w, {}) \cup ones))

nacti_nrc(cesta) == nacti_nrc_rows(cesta.rows, EmptyDict)

\* load_nrc(path): every column but the two word columns is an emotion
\* column, a cell counts when its text is '1'; rows whose word is empty or
\* in IGNOROVAT_SLOVA_NRC are skipped
emo_cols(fieldnames) ==
    {fieldnames[i] : i \in 1..Len(fieldnames)} \ {"English Word", "Czech Word"}

RECURSIVE load_nrc_rows(_, _, _, _)
load_nrc_rows(rows, cols_, ignorovat, slovnik) ==
    IF Len(rows) = 0 THEN slovnik
    ELSE LET row == rows[1]
             w == Lower(Strip(row.word))
             ones == {LowerHeader(emo) : emo \in {c \in cols_ : Cell(row, c) = "1"}}
         IN  load_nrc_rows(Tail(rows), cols_, ignorovat,
                 IF w = <<>> \/ w \in ignorovat \/ ones = {} THEN slovnik
                 ELSE DictSet(slovnik, w, DictGet(slovnik, w, {}) \cup ones))

load_nrc(path, ignorovat) ==
    load_nrc_rows(path.rows, emo_cols(path.fieldnames), ignorovat, EmptyDict)

\* ------------------------------------------------------------------------
\* Configuration and corpus
\* ------------------------------------------------------------------------

\* the analysed folders, one per group of respondents
SLOZKY_ANALYZA == <<"Bankeri", "Politici">>

\* the folder analysed by 04
FOLDER == SLOZKY_ANALYZA[1]

Slozky == {SLOZKY_ANALYZA[i] : i \in 1..Len(SLOZKY_ANALYZA)}

\* the ignore lists, the exception rules, the stop words and the lexicon file
Konfigurace ==
    { [ignorovat |-> {}, vyjimky |-> EmptyDict, stop |-> {},
       lexikon |-> LexFileStd],
      [ignorovat |-> {}, vyjimky |-> (w_dobry :> {"fear"}), stop |-> {w_je},
       lexikon |-> LexFileStd],
      [ignorovat |-> {w_radost},
       vyjimky |-> (w_dobry :> {"fear"}) @@ (w_strach :> {"fear", "negative"}),
       stop |-> {w_dobry, w_dva}, lexikon |-> LexFileExtra],
      [ignorovat |-> {}, vyjimky |-> EmptyDict, stop |-> {w_strach},
       lexikon |-> LexFileExtra] }

\* one CoNLL-U record of the lemmatizer's output: columns 3 and 4
Tok(lemma, upos) == [lemma |-> lemma, upos |-> upos]

\* the lines a transcript file can hold, as the records UDPipe returns
V_prazdna == <<>>
V_radost  == <<Tok(w_radost, "NOUN"), Tok(w_je, "AUX"), Tok(w_dva, "NUM")>>
V_dobry   == <<Tok(w_dobry, "ADJ")>>
V_strach  ==
    <<Tok(w_strach, "NOUN"), Tok(w_je, "AUX"), Tok(w_carka, "PUNCT"),
      Tok(w_Radost, "NOUN"), Tok(w_5, "NUM"), Tok(w_radost, "NOUN")>>
V_3d      == <<Tok(w_3d, "NOUN"), Tok(w_je, "AUX")>>
V_je      == <<Tok(w_je, "AUX"), Tok(w_dva, "NUM")>>

Vety == {V_prazdna, V_radost, V_dobry, V_strach, V_3d, V_je}

\* all sequences over S of length at most n
RECURSIVE SeqsUpTo(_, _)
SeqsUpTo(S, n) ==
    IF n = 0 THEN {<<>>}
    ELSE LET shorter == SeqsUpTo(S, n - 1)
         IN  shorter \cup {Append(q, x) : q \in shorter, x \in S}

RECURSIVE SumLen(_, _)
SumLen(f, D) ==
    IF D = {} THEN 0
    ELSE LET d == CHOOSE x \in D : TRUE IN Len(f[d]) + SumLen(f, D \ {d})

\* the folders' contents: at most MaxLines lines in all
Korpusy ==
    {t \in [Slozky -> SeqsUpTo(Vety, MaxLines)] : SumLen(t, Slozky) <= MaxLines}

\* ------------------------------------------------------------------------
\* State
\* ------------------------------------------------------------------------

VARIABLES
    IGNOROVAT_SLOVA,            \* 03:27 and 04:33
    IGNOROVAT_EMOCE_PRO_SLOVO,  \* 03:30 and 04:35
    STOPWORDS_NGRAM,            \* 04:38
    CSTA_NRC,                   \* the lexicon file
    texty,                      \* folder -> lines of its .txt files
    faze,                       \* which script runs
    pc03,                       \* position of 03
    nrc_slovnik,                \* 03: the lexicon
    slozka_i,                   \* 03: index of the folder in SLOZKY_ANALYZA
    veta_i,                     \* 03: index of the line in the folder
    emoce_counter,              \* 03: folder -> the Counter made for it
    slova_podle_emoci,          \* 03: folder -> the defaultdict(Counter) made for it
    celkem_vet,                 \* 03: folder -> the line count made for it
    vysledky_graf,              \* 03: emotion -> folder -> number of lines
    celkem_vet_slovnik,         \* 03: folder -> number of lines
    veta,                       \* 03: the line processed last
    aktualni_emoce,             \* 03: its emotions
    pc04,                       \* position of 04
    nrc,                        \* 04: the lexicon
    sents,                      \* 04: the sentences read
    seg_i,                      \* 04: index of the clause
    seg,                        \* 04: the clause processed last
    lem, emos, toks,            \* 04: its lemmas, emotions and n-gram tokens
    uni, bi, tri,               \* 04: emotion -> Counter of n-grams
    all_raw, cols, rows, df     \* 04: the matrix

konfig_vars == <<IGNOROVAT_SLOVA, IGNOROVAT_EMOCE_PRO_SLOVO, STOPWORDS_NGRAM,
                 CSTA_NRC, texty>>
vars03 == <<pc03, nrc_slovnik, slozka_i, veta_i, emoce_counter,
            slova_podle_emoci, celkem_vet, vysledky_graf, celkem_vet_slovnik,
            veta, aktualni_emoce>>
vars04 == <<pc04, nrc, sents, seg_i, seg, lem, emos, toks, uni, bi, tri>>
vars_matice == <<all_raw, cols, rows, df>>
vars == <<konfig_vars, faze, vars03, vars04, vars_matice>>

\* 04 takes its two ignore lists from 03
IGNOROVAT_SLOVA_NRC == IGNOROVAT_SLOVA

\* the state of both scripts before their first statement
Start03 ==
    /\ pc03 = "start"
    /\ nrc_slovnik = EmptyDict
    /\ slozka_i = 1
    /\ veta_i = 1
    /\ emoce_counter = EmptyDict
    /\ slova_podle_emoci = EmptyDict
    /\ celkem_vet = EmptyDict
    /\ vysledky_graf = EmptyDict
    /\ celkem_vet_slovnik = EmptyDict
    /\ veta = <<>>
    /\ aktualni_emoce = {}

Start04 ==
    /\ pc04 = "start"
    /\ nrc = EmptyDict
    /\ sents = <<>>
    /\ seg_i = 1
    /\ seg = <<>>
    /\ lem = <<>>
    /\ emos = {}
    /\ toks = <<>>
    /\ uni = EmptyDict
    /\ bi = EmptyDict
    /\ tri = EmptyDict

StartMatice ==
    /\ all_raw = EmptyDict
    /\ cols = <<>>
    /\ rows = <<>>
    /\ df = EmptyDict

Init ==
    /\ \E k \in Konfigurace :
          /\ IGNOROVAT_SLOVA = k.ignorovat
          /\ IGNOROVAT_EMOCE_PRO_SLOVO = k.vyjimky
          /\ STOPWORDS_NGRAM = k.stop
          /\ CSTA_NRC = k.lexikon
    /\ texty \in Korpusy
    /\ faze = "analyza"
    /\ Start03
    /\ Start04
    /\ StartMatice

\* ------------------------------------------------------------------------
\* 03_NRC_analýza.py
\* ------------------------------------------------------------------------

\* lemmatizuj_vetu: column 3 of every CoNLL-U record (a record of UDPipe has
\* ten columns, so the tests on the number of columns always pass)
lemmatizuj_vetu(text) == [i \in 1..Len(text) |-> text[i].lemma]

\* 'slovo in nrc_slovnik' followed by nrc_slovnik[slovo]: the test keeps the
\* defaultdict from creating an entry
V_slovniku(slovnik, slovo) ==
    [nalezeno |-> slovo \in DOMAIN slovnik,
     emoce    |-> IF slovo \in DOMAIN slovnik THEN slovnik[slovo] ELSE {},
     slovnik  |-> slovnik]

\* the body of 'for slovo in lemmata' for one lemma; st holds the folder's
\* emoce_counter and slova_podle_emoci, the line's aktualni_emoce and the
\* lexicon
ZpracujSlovo(st, slovo) ==
    LET slovo_ciste == Lower(slovo)
    IN  IF ReMatchSlovo(slovo_ciste) /\ slovo_ciste \notin IGNOROVAT_SLOVA
        THEN LET r == V_slovniku(st.slovnik, slovo_ciste)
                 zakazane == DictGet(IGNOROVAT_EMOCE_PRO_SLOVO, slovo_ciste, {})
                 pocitane == IF r.nalezeno THEN r.emoce \ zakazane ELSE {}
             IN  [ec  |-> Eager([e \in DOMAIN st.ec \cup pocitane |->
                             DictGet(st.ec, e, 0)
                               + (IF e \in pocitane THEN 1 ELSE 0)]),
                  spe |-> Eager([e \in DOMAIN st.spe \cup pocitane |->
                             IF e \in pocitane
                             THEN CounterAdd(DictGet(st.spe, e, EmptyDict),
                                             slovo_ciste, 1)
                             ELSE st.spe[e]]),
                  akt |-> st.akt \cup pocitane,
                  slovnik |-> r.slovnik]
        ELSE st

RECURSIVE ZpracujLemmata(_, _)
ZpracujLemmata(st, lemmata) ==
    IF Len(lemmata) = 0 THEN st
    ELSE ZpracujLemmata(ZpracujSlovo(st, lemmata[1]), Tail(lemmata))

\* PrictiVetu with .get(slozka, 1) in place of .get(slozka, 0)
PrictiVetu_default1(vysl, sl, akt) ==
    Eager([e \in DOMAIN vysl \cup akt |->
              IF e \in akt
              THEN DictSet(DictGet(vysl, e, EmptyDict), sl,
                           DictGet(DictGet(vysl, e, EmptyDict), sl, 1) + 1)
              ELSE vysl[e]])

\* vysledky_graf[emo][slozka] = vysledky_graf[emo].get(slozka, 0) + 1 for
\* every emotion of the line
PrictiVetu(vysl, sl, akt) ==
    Eager([e \in DOMAIN vysl \cup akt |->
              IF e \in akt
              THEN DictSet(DictGet(vysl, e, EmptyDict), sl,
                           DictGet(DictGet(vysl, e, EmptyDict), sl, 0) + 1)
              ELSE vysl[e]])

slozka == SLOZKY_ANALYZA[slozka_i]

\* the lexicon is loaded
NactiSlovnik ==
    /\ faze = "analyza"
    /\ pc03 = "start"
    /\ nrc_slovnik' = nacti_nrc(CSTA_NRC)
    /\ pc03' = "slozka"
    /\ UNCHANGED <<konfig_vars, faze, slozka_i, veta_i, emoce_counter,
                   slova_podle_emoci, celkem_vet, vysledky_graf,
                   celkem_vet_slovnik, veta, aktualni_emoce, vars04,
                   vars_matice>>

\* 'for slozka in SLOZKY_ANALYZA': the folder's counters are created
ZacniSlozku ==
    /\ faze = "analyza"
    /\ pc03 = "slozka"
    /\ slozka_i <= Len(SLOZKY_ANALYZA)
    /\ emoce_counter' = DictSet(emoce_counter, slozka, EmptyDict)
    /\ slova_podle_emoci' = DictSet(slova_podle_emoci, slozka, EmptyDict)
    /\ celkem_vet' = DictSet(celkem_vet, slozka, 0)
    /\ veta_i' = 1
    /\ pc03' = "vety"
    /\ UNCHANGED <<konfig_vars, faze, nrc_slovnik, slozka_i, vysledky_graf,
                   celkem_vet_slovnik, veta, aktualni_emoce, vars04,
                   vars_matice>>

\* 'for veta in texty': one line of the folder
ZpracujVetu ==
    /\ faze = "analyza"
    /\ pc03 = "vety"
    /\ veta_i <= Len(texty[slozka])
    /\ LET v == texty[slozka][veta_i]
       IN  IF v = <<>>
           THEN UNCHANGED <<nrc_slovnik, emoce_counter, slova_podle_emoci,
                            celkem_vet, vysledky_graf, veta, aktualni_emoce>>
           ELSE LET st == ZpracujLemmata(
                              [ec |-> emoce_counter[slozka],
                               spe |-> slova_podle_emoci[slozka],
                               akt |-> {},
                               slovnik |-> nrc_slovnik],
                              lemmatizuj_vetu(v))
                IN  /\ veta' = v
                    /\ aktualni_emoce' = st.akt
                    /\ nrc_slovnik' = st.slovnik
                    /\ emoce_counter' = [emoce_counter EXCEPT ![slozka] = st.ec]
                    /\ slova_podle_emoci' =
                           [slova_podle_emoci EXCEPT ![slozka] = st.spe]
                    /\ celkem_vet' = [celkem_vet EXCEPT ![slozka] = @ + 1]
                    /\ vysledky_graf' = PrictiVetu(vysledky_graf, slozka, st.akt)
    /\ veta_i' = veta_i + 1
    /\ UNCHANGED <<konfig_vars, faze, pc03, slozka_i, celkem_vet_slovnik,
                   vars04, vars_matice>>

\* the folder's files are exhausted
DokonciSlozku ==
    /\ faze = "analyza"
    /\ pc03 = "vety"
    /\ veta_i > Len(texty[slozka])
    /\ celkem_vet_slovnik' = DictSet(celkem_vet_slovnik, slozka, celkem_vet[slozka])
    /\ slozka_i' = slozka_i + 1
    /\ pc03' = "slozka"
    /\ UNCHANGED <<konfig_vars, faze, nrc_slovnik, veta_i, emoce_counter,
                   slova_podle_emoci, celkem_vet, vysledky_graf, veta,
                   aktualni_emoce, vars04, vars_matice>>

\* all folders are analysed; 04 is run next
DokonciAnalyzu ==
    /\ faze = "analyza"
    /\ pc03 = "slozka"
    /\ slozka_i > Len(SLOZKY_ANALYZA)
    /\ pc03' = "hotovo"
    /\ faze' = "ngramy"
    /\ UNCHANGED <<konfig_vars, nrc_slovnik, slozka_i, veta_i, emoce_counter,
                   slova_podle_emoci, celkem_vet, vysledky_graf,
                   celkem_vet_slovnik, veta, aktualni_emoce, vars04,
                   vars_matice>>

\* ------------------------------------------------------------------------
\* 04_NRC_ngramy.py
\* ------------------------------------------------------------------------

NeniPrazdna(l) == l # <<>>

\* read_sentences(folder): the non-blank lines of the folder's files
read_sentences(folder) == SelectSeq(texty[folder], NeniPrazdna)

\* a record of one of the characters . , ? ! -
JeOddelovac(tok) == tok.lemma \in {<<46>>, <<44>>, <<63>>, <<33>>, <<45>>}

\* re.split(r'[.,?!\-]', sent), then strip() and the skip of empty pieces
RECURSIVE SplitAcc(_, _, _)
SplitAcc(sent, cur, out) ==
    LET flushed == IF cur = <<>> THEN out ELSE Append(out, cur)
    IN  IF Len(sent) = 0 THEN flushed
        ELSE IF JeOddelovac(sent[1]) THEN SplitAcc(Tail(sent), <<>>, flushed)
        ELSE SplitAcc(Tail(sent), Append(cur, sent[1]), out)

Segments(sent) == SplitAcc(sent, <<>>, <<>>)

\* the clauses of all sentences, in the order the two loops visit them
RECURSIVE AllSegments(_)
AllSegments(ss) ==
    IF Len(ss) = 0 THEN <<>>
    ELSE Segments(ss[1]) \o AllSegments(Tail(ss))

\* lemmatize_sentence(sent, model)
RECURSIVE lemmatize_sentence(_)
lemmatize_sentence(sent) ==
    IF Len(sent) = 0 THEN <<>>
    ELSE LET lemma == Lower(sent[1].lemma)
             upos == sent[1].upos
             rest == lemmatize_sentence(Tail(sent))
         IN  IF upos = "NUM" \/ IsDigit(lemma) THEN <<lemma>> \o rest
             ELSE IF lemma \notin STOPWORDS_NGRAM THEN <<lemma>> \o rest
             ELSE rest

\* NrcGet as nrc[tok]: indexing the defaultdict creates the missing entry
NrcGet_index(d, tok) ==
    [val |-> DictGet(d, tok, {}),
     dict |-> IF tok \in DOMAIN d THEN d ELSE DictSet(d, tok, {})]

\* nrc.get(tok, []): get() never creates an entry of the defaultdict
NrcGet(d, tok) == [val |-> DictGet(d, tok, {}), dict |-> d]

\* emos = {e for tok in lem for e in nrc.get(tok, [])
\*           if e not in emo_filter.get(tok, set())}
RECURSIVE EmosOf(_, _, _, _)
EmosOf(d, lemv, emo_filter, acc) ==
    IF Len(lemv) = 0 THEN [emos |-> acc, nrc |-> d]
    ELSE LET g == NrcGet(d, lemv[1])
         IN  EmosOf(g.dict, Tail(lemv), emo_filter,
                    acc \cup (g.val \ DictGet(emo_filter, lemv[1], {})))

\* toks = [t for t in lem if t.isalpha() and t not in stopw]
RECURSIVE FilterToks(_, _)
FilterToks(lemv, stopw) ==
    IF Len(lemv) = 0 THEN <<>>
    ELSE IF IsAlpha(lemv[1]) /\ lemv[1] \notin stopw
         THEN <<lemv[1]>> \o FilterToks(Tail(lemv), stopw)
         ELSE FilterToks(Tail(lemv), stopw)

\* islice(tokens, i, None)
islice(tokens, i) == SubSeq(tokens, i + 1, Len(tokens))

\* ngrams with range(1, n + 1) in place of range(n)
ngrams_shifted(tokens, n) ==
    LET its == [i \in 1..n |-> islice(tokens, i)]
        m == CHOOSE l \in {Len(its[i]) : i \in 1..n} :
                 \A i \in 1..n : l <= Len(its[i])
    IN  [j \in 1..m |-> [k \in 1..n |-> its[k][j]]]

\* ngrams(tokens, n) = zip(*(islice(tokens, i, None) for i in range(n)))
ngrams(tokens, n) ==
    LET its == [i \in 0..(n - 1) |-> islice(tokens, i)]
        m == CHOOSE l \in {Len(its[i]) : i \in 0..(n - 1)} :
                 \A i \in 0..(n - 1) : l <= Len(its[i])
    IN  [j \in 1..m |-> [k \in 1..n |-> its[k - 1][j]]]

JoinAll(grams) == [j \in 1..Len(grams) |-> Join(grams[j])]

\* UpdateUni with uni[e].update(set(toks)): a repeated token counts once
UpdateUni_set(dd, emosv, keys) ==
    LET S == {keys[i] : i \in 1..Len(keys)}
    IN  Eager([e \in DOMAIN dd \cup emosv |->
                  IF e \in emosv
                  THEN Eager([k \in DOMAIN DictGet(dd, e, EmptyDict) \cup S |->
                                 DictGet(DictGet(dd, e, EmptyDict), k, 0)
                                   + (IF k \in S THEN 1 ELSE 0)])
                  ELSE dd[e]])

\* 'for e in emos: uni[e].update(toks)': uni[e] is created even for no token
UpdateUni(dd, emosv, keys) ==
    Eager([e \in DOMAIN dd \cup emosv |->
              IF e \in emosv
              THEN CounterUpdateSeq(DictGet(dd, e, EmptyDict), keys)
              ELSE dd[e]])

\* 'for bg in ngrams(toks, n): bi[e][' '.join(bg)] += 1': bi[e] is created by
\* the first increment
UpdateJoined(dd, emosv, keys) ==
    Eager([e \in DOMAIN dd \cup (IF Len(keys) > 0 THEN emosv ELSE {}) |->
              IF e \in emosv
              THEN CounterUpdateSeq(DictGet(dd, e, EmptyDict), keys)
              ELSE dd[e]])

\* the body of 'for seg in segments' for one non-empty clause
SegmentStep(res, segv, stopw, emo_filter) ==
    LET lemv == lemmatize_sentence(segv)
        r == EmosOf(res.nrc, lemv, emo_filter, {})
        toksv == FilterToks(lemv, stopw)
    IN  [uni |-> UpdateUni(res.uni, r.emos, toksv),
         bi  |-> UpdateJoined(res.bi, r.emos, JoinAll(ngrams(toksv, 2))),
         tri |-> UpdateJoined(res.tri, r.emos, JoinAll(ngrams(toksv, 3))),
         nrc |-> r.nrc, lem |-> lemv, emos |-> r.emos, toks |-> toksv]

RECURSIVE RunSegments(_, _, _, _)
RunSegments(res, segs, stopw, emo_filter) ==
    IF Len(segs) = 0 THEN res
    ELSE LET step == SegmentStep(res, segs[1], stopw, emo_filter)
         IN  \* the test makes TLC evaluate step before the next clause
             IF DOMAIN step = {} THEN res
             ELSE RunSegments(step, Tail(segs), stopw, emo_filter)

\* top_ngrams_by_emotion(nrc, model, sents, stopw, emo_filter)
top_ngrams_by_emotion(nrcd, ss, stopw, emo_filter) ==
    RunSegments([uni |-> EmptyDict, bi |-> EmptyDict, tri |-> EmptyDict,
                 nrc |-> nrcd, lem |-> <<>>, emos |-> {}, toks |-> <<>>],
                AllSegments(ss), stopw, emo_filter)

\* the lowest count of a column is min_count + 1
min_count == 6

pos == <<"positive", "joy", "anticipation", "surprise", "trust">>
neg == <<"negative", "anger", "sadness", "disgust", "fear">>

\* 'for emo, ctr in results[level].items(): all_raw[emo].update(ctr)'
MergeLevel(all, level) ==
    Eager([e \in DOMAIN all \cup DOMAIN level |->
              IF e \in DOMAIN level
              THEN CounterUpdate(DictGet(all, e, EmptyDict), level[e])
              ELSE all[e]])

AllRaw(u, b, t) == MergeLevel(MergeLevel(MergeLevel(EmptyDict, u), b), t)

\* Cols with c >= 6 in place of c > 6
Cols_ge(all) ==
    Sorted(UNION {{w \in DOMAIN all[emo] : all[emo][w] >= min_count} :
                  emo \in DOMAIN all})

\* cols = sorted({w for emo, counter in all_raw.items()
\*                  for w, c in counter.items() if c > 6})
Cols(all) ==
    Sorted(UNION {{w \in DOMAIN all[emo] : all[emo][w] > min_count} :
                  emo \in DOMAIN all})

\* rows = [e for e in pos + neg if e in all_raw]
Rows(all) ==
    LET Present(e) == e \in DOMAIN all
    IN  SelectSeq(pos \o neg, Present)

\* df.at[emo, w] = counter.get(w, 0)
Df(all, rs, cs) ==
    [emo \in {rs[i] : i \in 1..Len(rs)} |->
        [w \in {cs[i] : i \in 1..Len(cs)} |-> DictGet(all[emo], w, 0)]]

\* the lexicon and the sentences are loaded
NactiNgramy ==
    /\ faze = "ngramy"
    /\ pc04 = "start"
    /\ nrc' = load_nrc(CSTA_NRC, IGNOROVAT_SLOVA_NRC)
    /\ sents' = read_sentences(FOLDER)
    /\ seg_i' = 1
    /\ pc04' = "segmenty"
    /\ UNCHANGED <<konfig_vars, faze, vars03, seg, lem, emos, toks, uni, bi,
                   tri, vars_matice>>

\* one non-empty clause of one sentence
ZpracujSegment ==
    /\ faze = "ngramy"
    /\ pc04 = "segmenty"
    /\ seg_i <= Len(AllSegments(sents))
    /\ LET s == AllSegments(sents)[seg_i]
           r == SegmentStep([uni |-> uni, bi |-> bi, tri |-> tri, nrc |-> nrc,
                             lem |-> lem, emos |-> emos, toks |-> toks],
                            s, STOPWORDS_NGRAM, IGNOROVAT_EMOCE_PRO_SLOVO)
       IN  /\ seg' = s
           /\ lem' = r.lem
           /\ emos' = r.emos
           /\ toks' = r.toks
           /\ nrc' = r.nrc
           /\ uni' = r.uni
           /\ bi' = r.bi
           /\ tri' = r.tri
    /\ seg_i' = seg_i + 1
    /\ UNCHANGED <<konfig_vars, faze, vars03, pc04, sents, vars_matice>>

\* the emotion x n-gram matrix
SestavMatici ==
    /\ faze = "ngramy"
    /\ pc04 = "segmenty"
    /\ seg_i > Len(AllSegments(sents))
    /\ all_raw' = AllRaw(uni, bi, tri)
    /\ cols' = Cols(all_raw')
    /\ rows' = Rows(all_raw')
    /\ df' = Df(all_raw', rows', cols')
    /\ pc04' = "hotovo"
    /\ faze' = "hotovo"
    /\ UNCHANGED <<konfig_vars, vars03, nrc, sents, seg_i, seg, lem, emos,
                   toks, uni, bi, tri>>

Next ==
    \/ NactiSlovnik
    \/ ZacniSlozku
    \/ ZpracujVetu
    \/ DokonciSlozku
    \/ DokonciAnalyzu
    \/ NactiNgramy
    \/ ZpracujSegment
    \/ SestavMatici

Spec == Init /\ [][Next]_vars

\* ------------------------------------------------------------------------
\* 04 alone, on a corpus in which every clause is repeated up to MaxRep
\* times: the input of the matrix construction
\* ------------------------------------------------------------------------

RECURSIVE Repeat(_, _)
Repeat(x, n) == IF n = 0 THEN <<>> ELSE <<x>> \o Repeat(x, n - 1)

InitMatrix ==
    /\ IGNOROVAT_SLOVA = {}
    /\ IGNOROVAT_EMOCE_PRO_SLOVO = (w_dobry :> {"fear"})
    /\ STOPWORDS_NGRAM = {}
    /\ CSTA_NRC = LexFileStd
    /\ \E a \in 0..MaxRep, b \in 0..MaxRep, c \in 0..MaxRep :
          texty = [g \in Slozky |->
                     IF g = FOLDER
                     THEN Repeat(V_radost, a) \o Repeat(V_dobry, b)
                            \o Repeat(V_strach, c)
                     ELSE <<>>]
    /\ faze = "ngramy"
    /\ Start03
    /\ Start04
    /\ StartMatice

\* results = top_ngrams_by_emotion(...): the two loops run to their end
SpocitejNgramy ==
    /\ faze = "ngramy"
    /\ pc04 = "segmenty"
    /\ seg_i = 1
    /\ Len(AllSegments(sents)) > 0
    /\ LET r == top_ngrams_by_emotion(nrc, sents, STOPWORDS_NGRAM,
                                      IGNOROVAT_EMOCE_PRO_SLOVO)
       IN  /\ seg' = AllSegments(sents)[Len(AllSegments(sents))]
           /\ lem' = r.lem
           /\ emos' = r.emos
           /\ toks' = r.toks
           /\ nrc' = r.nrc
           /\ uni' = r.uni
           /\ bi' = r.bi
           /\ tri' = r.tri
    /\ seg_i' = Len(AllSegments(sents)) + 1
    /\ UNCHANGED <<konfig_vars, faze, vars03, pc04, sents, vars_matice>>

NextMatrix == NactiNgramy \/ SpocitejNgramy \/ SestavMatici

SpecMatrix == InitMatrix /\ [][NextMatrix]_vars

\* ------------------------------------------------------------------------
\* Properties
\* ------------------------------------------------------------------------

\* dd[a][b] of a dict of Counters, 0 when a key is missing
Get2(dd, a, b) == DictGet(DictGet(dd, a, EmptyDict), b, 0)

\* dd[a][b][c], 0 when a key is missing
Get3(dd, a, b, c) == DictGet(DictGet(DictGet(dd, a, EmptyDict), b, EmptyDict), c, 0)

\* the keys of dd[a]
Keys2(dd, a) == DOMAIN DictGet(dd, a, EmptyDict)

Max0(x) == IF x > 0 THEN x ELSE 0

RECURSIVE Total(_)
Total(c) ==
    IF DOMAIN c = {} THEN 0
    ELSE LET k == CHOOSE x \in DOMAIN c : TRUE
         IN  c[k] + Total([x \in DOMAIN c \ {k} |-> c[x]])

\* the lower-cased lemmas of the records of a line or clause
Slova(text) == {Lower(text[i].lemma) : i \in 1..Len(text)}

\* the exception rule of a word
Vyjimka(w) == DictGet(IGNOROVAT_EMOCE_PRO_SLOVO, w, {})

\* a candidate for emotion lookup: alphabetic and not an ignored word
Kandidat(w) == IsAlpha(w) /\ w \notin IGNOROVAT_SLOVA

\* 03 has processed a line, 04 has processed a clause
Zpracovana03 == veta # <<>>
Zpracovan04 == seg # <<>>

\* C1: for every (word, emotion) pair of the exception rules the emotion is
\* never counted and never active because of that word, in 03 and in 04, and
\* every other emotion the lexicon gives a candidate word is active in the
\* segment that holds the word.
C1_ExceptionRule ==
    /\ \A g \in DOMAIN slova_podle_emoci :
          \A w \in DOMAIN IGNOROVAT_EMOCE_PRO_SLOVO :
             \A e \in IGNOROVAT_EMOCE_PRO_SLOVO[w] :
                Get3(slova_podle_emoci, g, e, w) = 0
    /\ Zpracovana03 =>
          /\ \A e \in aktualni_emoce :
                \E w \in Slova(veta) :
                   e \in DictGet(nrc_slovnik, w, {}) \ Vyjimka(w)
          /\ \A w \in Slova(veta) \cap DOMAIN IGNOROVAT_EMOCE_PRO_SLOVO :
                Kandidat(w) =>
                   DictGet(nrc_slovnik, w, {}) \ Vyjimka(w) \subseteq aktualni_emoce
    /\ Zpracovan04 =>
          /\ \A e \in emos :
                \E w \in Slova(seg) : e \in DictGet(nrc, w, {}) \ Vyjimka(w)
          /\ \A w \in Slova(seg) \cap DOMAIN IGNOROVAT_EMOCE_PRO_SLOVO :
                Kandidat(w) => DictGet(nrc, w, {}) \ Vyjimka(w) \subseteq emos

\* C2: in 04 a stop word still contributes its emotions: every emotion the
\* lexicon gives a stop word of the clause, unless an exception rule
\* suppresses it, is in the clause's active emotions.
C2_StopWordEmotion ==
    Zpracovan04 =>
        \A w \in Slova(seg) :
            (w \in STOPWORDS_NGRAM /\ Kandidat(w)) =>
                DictGet(nrc, w, {}) \ Vyjimka(w) \subseteq emos

\* C3: in 04 a token that is entirely numeric or tagged NUM is a unigram key
\* of every active emotion of its clause.
C3_NumeralKept ==
    Zpracovan04 =>
        \A i \in 1..Len(seg) :
            (seg[i].upos = "NUM" \/ IsDigit(Lower(seg[i].lemma))) =>
                \A e \in emos : Get2(uni, e, Lower(seg[i].lemma)) >= 1

\* the words kept by the n-gram token filter among the keys of both counters
SlovaPoFiltru ==
    {w \in UNION {Keys2(uni, e) : e \in DOMAIN uni}
           \cup UNION {Keys2(DictGet(slova_podle_emoci, FOLDER, EmptyDict), e) :
                       e \in DOMAIN DictGet(slova_podle_emoci, FOLDER, EmptyDict)} :
        IsAlpha(w) /\ w \notin STOPWORDS_NGRAM}

VsechnyEmoce ==
    emoce \cup DOMAIN uni \cup DOMAIN bi \cup DOMAIN tri

Windows(ts, n, key) ==
    Cardinality({i \in 1..(Len(ts) - n + 1) : Join(SubSeq(ts, i, i + n - 1)) = key})

WindowKeys(ts, n) ==
    {Join(SubSeq(ts, i, i + n - 1)) : i \in 1..(Len(ts) - n + 1)}

\* C5: a clause with no active emotion changes no counter; otherwise, for
\* every active emotion and every n in 1..3, the (emotion, n) counter grows
\* by one for every window of n consecutive filtered tokens of that clause,
\* max(0, len - n + 1) in all, under the space-joined window as key; the
\* counters of the other emotions do not change, and the filtered tokens are
\* lemmas of that clause alone.
C5_NgramWindows ==
    [][ seg_i' = seg_i + 1 =>
          /\ emos' = {} => (uni' = uni /\ bi' = bi /\ tri' = tri)
          /\ \A i \in 1..Len(toks') : toks'[i] \in Slova(seg')
          /\ \A n \in 1..3 :
                LET old == IF n = 1 THEN uni ELSE IF n = 2 THEN bi ELSE tri
                    new == IF n = 1 THEN uni' ELSE IF n = 2 THEN bi' ELSE tri'
                IN  \A e \in emoce \cup DOMAIN old \cup DOMAIN new \cup emos' :
                       /\ \A key \in Keys2(old, e) \cup Keys2(new, e)
                                       \cup WindowKeys(toks', n) :
                             Get2(new, e, key) - Get2(old, e, key)
                               = IF e \in emos' THEN Windows(toks', n, key) ELSE 0
                       /\ Total(DictGet(new, e, EmptyDict))
                            - Total(DictGet(old, e, EmptyDict))
                            = IF e \in emos' THEN Max0(Len(toks') - n + 1) ELSE 0
      ]_vars

\* the second clause of a sentence has been processed, it has two active
\* emotions and at least three filtered tokens, and both emotions hold its
\* trigram
C5_Witness ==
    /\ pc04 = "segmenty"
    /\ seg_i >= 3
    /\ Cardinality(emos) >= 2
    /\ Len(toks) >= 3
    /\ \A e \in emos : Get2(tri, e, Join(SubSeq(toks, 1, 3))) >= 1

TermsOf(dd) == UNION {DOMAIN dd[e] : e \in DOMAIN dd}

MergedCount(e, t) == Get2(uni, e, t) + Get2(bi, e, t) + Get2(tri, e, t)

RECURSIVE SumOver(_, _)
SumOver(E, t) ==
    IF E = {} THEN 0
    ELSE LET e == CHOOSE x \in E : TRUE
         IN  MergedCount(e, t) + SumOver(E \ {e}, t)

C7_ClosedVocabulary ==
    /\ \A w \in DOMAIN nrc_slovnik : nrc_slovnik[w] \subseteq emoce
    /\ \A w \in DOMAIN nrc : nrc[w] \subseteq emoce
    /\ aktualni_emoce \subseteq emoce
    /\ emos \subseteq emoce
    /\ DOMAIN uni \cup DOMAIN bi \cup DOMAIN tri \subseteq emoce

\* the (token, e) hits of a line in 03
Hits(text, e) ==
    Cardinality({i \in 1..Len(text) :
        LET w == Lower(text[i].lemma)
        IN  /\ ReMatchSlovo(w)
            /\ w \notin IGNOROVAT_SLOVA
            /\ e \in DictGet(nrc_slovnik, w, {}) \ Vyjimka(w)})

C8_Inv ==
    \A g \in Slozky : \A e \in emoce \cup DOMAIN vysledky_graf :
        /\ Get2(vysledky_graf, e, g) <= DictGet(celkem_vet, g, 0)
        /\ Get2(vysledky_graf, e, g) <= Get2(emoce_counter, g, e)
        /\ g \in DOMAIN celkem_vet_slovnik =>
              celkem_vet_slovnik[g] = DictGet(celkem_vet, g, 0)

C8_Step ==
    /\ \A g \in Slozky : \A e \in emoce \cup DOMAIN vysledky_graf :
          /\ Get2(vysledky_graf', e, g) >= Get2(vysledky_graf, e, g)
          /\ Get2(emoce_counter', g, e) >= Get2(emoce_counter, g, e)
          /\ DictGet(celkem_vet', g, 0) >= DictGet(celkem_vet, g, 0)
    /\ veta_i' = veta_i + 1 =>
          LET g == slozka
              v == texty[g][veta_i]
              n == IF v = <<>> THEN 0 ELSE 1
          IN  /\ celkem_vet'[g] = celkem_vet[g] + n
              /\ \A e \in emoce \cup DOMAIN vysledky_graf' :
                    /\ Get2(emoce_counter', g, e)
                         = Get2(emoce_counter, g, e) + Hits(v, e)
                    /\ Get2(vysledky_graf', e, g)
                         = Get2(vysledky_graf, e, g)
                             + (IF Hits(v, e) >= 1 THEN 1 ELSE 0)

\* C8: in 03 every non-empty line raises the folder's line count by 1, the
\* folder's counter of emotion e by the number of (token, e) hits of the
\* line, and the (e, folder) line tally by 1 when the line has a hit for e
\* and by 0 otherwise; the tally never exceeds the line count or the
\* emotion counter, and no counter decreases.
C8_LineTally == [](C8_Inv) /\ [][C8_Step]_vars

\* a line with two hits of one emotion has been counted once in the tally
C8_Witness ==
    \E g \in Slozky : \E e \in emoce :
        /\ Get2(emoce_counter, g, e) >= 2
        /\ Get2(vysledky_graf, e, g) = 1
        /\ DictGet(celkem_vet, g, 0) = 1

\* the words of the lexicon file to which some column of cs gives a 1
LexWords(cs) ==
    {Lower(Strip(CSTA_NRC.rows[i].word)) :
        i \in {j \in 1..Len(CSTA_NRC.rows) : CSTA_NRC.rows[j].ones \cap cs # {}}}

\* C9: a token that is not a key of the lexicon makes no emotion active,
\* raises no emotion counter and no per-word counter, and gets no entry in
\* the lexicon, not even an empty one; in 03 and in 04.
C9_AbsentWord ==
    /\ DOMAIN nrc_slovnik \subseteq LexWords(emoce)
    /\ DOMAIN nrc \subseteq LexWords(emo_cols(CSTA_NRC.fieldnames))
    /\ \A w \in DOMAIN nrc_slovnik : nrc_slovnik[w] # {}
    /\ \A w \in DOMAIN nrc : nrc[w] # {}
    /\ aktualni_emoce \subseteq
          UNION {DictGet(nrc_slovnik, w, {}) :
                    w \in Slova(veta) \cap LexWords(emoce)}
    /\ emos \subseteq
          UNION {DictGet(nrc, w, {}) :
                    w \in Slova(seg) \cap LexWords(emo_cols(CSTA_NRC.fieldnames))}
    /\ \A g \in DOMAIN slova_podle_emoci :
          \A e \in DOMAIN slova_podle_emoci[g] :
             /\ DOMAIN slova_podle_emoci[g][e] \subseteq LexWords(emoce)
             /\ Get2(emoce_counter, g, e) = Total(slova_podle_emoci[g][e])
    /\ \A g \in DOMAIN emoce_counter :
          DOMAIN emoce_counter[g] \subseteq DOMAIN slova_podle_emoci[g]

\* both scripts have processed a segment that holds a token absent from the
\* lexicon next to a lexicon word
C9_Witness ==
    /\ Zpracovana03
    /\ Zpracovan04
    /\ \E w \in Slova(veta) : w \notin DOMAIN nrc_slovnik
    /\ \E w \in Slova(veta) : w \in DOMAIN nrc_slovnik
    /\ aktualni_emoce # {}
    /\ \E i \in 1..Len(lem) : lem[i] \notin DOMAIN nrc
    /\ \E i \in 1..Len(lem) : lem[i] \in DOMAIN nrc
    /\ emos # {}

\* C10: in 03 and in 04 every active emotion of a segment comes from a
\* candidate token of the segment: alphabetic, not an ignored word, and
\* given that emotion by the lexicon.
C10_OnlyCandidates ==
    /\ Zpracovana03 =>
          \A e \in aktualni_emoce :
             \E w \in Slova(veta) :
                Kandidat(w) /\ e \in DictGet(nrc_slovnik, w, {})
    /\ Zpracovan04 =>
          \A e \in emos :
             \E w \in Slova(seg) : Kandidat(w) /\ e \in DictGet(nrc, w, {})

====
